---- MODULE Spec2Model ----
(***************************************************************************)
(* A model of the RPI-Cam-Web-Interface-Scraper pipeline:                  *)
(*   video_scraper.py    fetch_and_clean (list, download, server delete)   *)
(*   video_processor.py  process_daily_videos (merge, publish, cleanup)    *)
(*   youtube_uploader.py upload_video                                      *)
(*   scheduler.py        run_scheduler and its triggers                    *)
(*   main.py             the one-shot modes                                *)
(* The camera server, the local file system, ffmpeg and the upload service *)
(* are the environment: every call to them has a nondeterministic outcome. *)
(***************************************************************************)
EXTENDS Integers, Sequences, FiniteSets, TLC

\* ------------------------------------------------------------------ bounds
\* the wall clock counts slots 0..MaxNow, SlotsPerDay of them per calendar day
MaxNow == 3
SlotsPerDay == 2
\* invocations of main.py in one behaviour
MaxRuns == 2
\* entries of the camera's listing
MaxListing == 2
MaxPage == 3
MaxCalls == 2
\* config.MAX_RETRIES (RPICAM_MAX_RETRIES); the retry claims speak of N = 3
MAX_RETRIES == 3

VARIABLES
    now,                \* wall clock
    server,             \* the camera's listing: a sequence of entries
    fs,                 \* DATA_DIR: date -> [exists, files: name -> body]
    pc,                 \* where the (single) thread of control stands
    mode,               \* args.mode of the running invocation
    runs,               \* invocations of main.py so far
    exitCode,           \* exit code of the last invocation ("none": none yet)
    retry,              \* the retry loop in progress or just left
    videos,             \* fetch_and_clean: videos
    idx,                \* fetch_and_clean: position of video_meta in videos
    sync_day,           \* fetch_and_clean: today (the bucket of day_dir)
    dlOk,               \* records whose download_video returned True, this sync
    delLog,             \* records for which session.post was called, this sync
    date_str,           \* process_daily_videos: date_str
    files,              \* process_daily_videos: files
    atStart,            \* the bucket as it was when process_daily_videos began
    stages,             \* process_daily_videos: the stages of this run, in order
    result,             \* process_daily_videos: what the last run returned
    failed,             \* cleanup: the names os.remove raised for, and os.rmdir
    youtube_service,    \* YouTubeUploader.youtube_service is set
    auths,              \* how often get_authenticated_service built a session
    upload_calls,       \* process_daily_videos: the calls of upload_video, this run
    channel,            \* the recordings whose content stands on the YouTube channel
    running,            \* RPiCamScheduler.running
    last_daily_process, \* RPiCamScheduler.last_daily_process (NoDate: None)
    last_scrape,        \* run_scheduler: last_scrape (NoTime: datetime.min)
    tick_now,           \* run_scheduler: now, read at the top of the tick
    triggered,          \* the last run_daily_process: the date it began on, its end
    recorded,           \* how often each date was assigned to last_daily_process
    loops,              \* the threads start() created: where each run_scheduler stands
    calls               \* how often start() and stop() were called

envVars == <<now, server, fs>>
ctlVars == <<mode, runs, exitCode>>
syncVars == <<videos, idx, sync_day, dlOk, delLog>>
uploadVars == <<auths, upload_calls, channel>>
procVars == <<date_str, files, atStart, stages, result, failed, youtube_service, uploadVars>>
lifeVars == <<loops, calls>>
schedVars ==
    <<running, last_daily_process, last_scrape, tick_now, triggered, recorded, lifeVars>>
vars == <<envVars, pc, ctlVars, retry, syncVars, procVars, schedVars>>

\* ------------------------------------------------------------ data model
Dates == 0 .. (MaxNow \div SlotsPerDay)
DateOf(t) == t \div SlotsPerDay

\* button "delete1" missing: delete_btn is None
NoHandle == "None"

\* button "delete1" present without a value attribute: delete_btn["value"]
\* raises KeyError
NoValue == "KeyError"

\* the listing entries the camera may show (href as path segments + extension)
Catalog ==
    { [href |-> <<"media", "a", "mp4">>, thumbnail |-> "t1"],
      [href |-> <<"media", "b", "mp4">>, thumbnail |-> NoHandle],
      [href |-> <<"media", "c", "mp4">>, thumbnail |-> ""] }

Range(s) == { s[i] : i \in DOMAIN s }

Listings ==
    { s \in UNION { [1..n -> Catalog] : n \in 0..MaxListing } :
        \A i, j \in DOMAIN s : i # j => s[i] # s[j] }

\* a recording whose delete button carries no value
ValueLess == [href |-> <<"media", "f", "mp4">>, thumbnail |-> NoValue]

\* soup.find_all("fieldset", class_="fileicon") on any preview page: recordings,
\* and fieldsets with no link (href <<>>), a link outside media/, or a link that
\* is not an .mp4
Fieldsets ==
    Catalog \cup
    { ValueLess,
      [href |-> <<>>, thumbnail |-> "t2"],
      [href |-> <<"other", "d", "mp4">>, thumbnail |-> "t3"],
      [href |-> <<"media", "e", "jpg">>, thumbnail |-> "t4"] }
Pages == UNION { [1..n -> Fieldsets] : n \in 0..MaxPage }

NoFile == [kind |-> "none", from |-> {}, complete |-> FALSE, lines |-> <<>>]
MediaBody(href, whole) ==
    [kind |-> "media", from |-> {href}, complete |-> whole, lines |-> <<>>]

EmptyDir == [exists |-> FALSE, files |-> <<>>]

FileAt(d, name) ==
    IF fs[d].exists /\ name \in DOMAIN fs[d].files THEN fs[d].files[name] ELSE NoFile

WriteFile(f, d, name, body) ==
    [f EXCEPT ![d].files =
        [n \in (DOMAIN f[d].files) \cup {name} |->
            IF n = name THEN body ELSE f[d].files[n]]]

Pow2_Linear(n) == n + 1

\* 2 ** attempt
RECURSIVE Pow2(_)
Pow2(n) == IF n = 0 THEN 1 ELSE 2 * Pow2(n - 1)

\* ------------------------------------------------------------ retry loops
NoRetry ==
    [loop |-> "none", attempt |-> 0, sleeps |-> <<>>, outcomes |-> <<>>, result |-> "none"]

StartRetry_OneUsed(name) ==
    [loop |-> name, attempt |-> 1, sleeps |-> <<>>, outcomes |-> <<>>,
     result |-> IF MAX_RETRIES <= 1 THEN "exhausted" ELSE "running"]

\* `for attempt in range(config.MAX_RETRIES):` is entered
StartRetry(name) ==
    [loop |-> name, attempt |-> 0, sleeps |-> <<>>, outcomes |-> <<>>,
     result |-> IF MAX_RETRIES = 0 THEN "exhausted" ELSE "running"]

\* history of the branch each pass took, kept for upload_video, whose except
\* clause tells a rate-limit error from any other
Logged(r, o) == [r EXCEPT !.outcomes = Append(@, o)]

\* the response.status_code of the latest pass (or "exc": no response), kept
\* for delete_video_from_server, which compares it with 200
Noted(r, o) == [r EXCEPT !.outcomes = <<o>>]

\* an attempt that returns or breaks out of the loop
AttemptOk(r) == [r EXCEPT !.attempt = @ + 1, !.result = "ok"]

AttemptFailedSleeps_NotAfterLast(r, secs) ==
    [r EXCEPT !.attempt = @ + 1,
              !.sleeps = IF r.attempt + 1 >= MAX_RETRIES THEN @ ELSE Append(@, secs),
              !.result = IF r.attempt + 1 >= MAX_RETRIES THEN "exhausted" ELSE "running"]

\* an attempt that fails: the except clause sleeps, then range() continues or ends
AttemptFailedSleeps(r, secs) ==
    [r EXCEPT !.attempt = @ + 1,
              !.sleeps = Append(@, secs),
              !.result = IF r.attempt + 1 >= MAX_RETRIES THEN "exhausted" ELSE "running"]
AttemptFailed_ExtraPass(r) ==
    [r EXCEPT !.attempt = @ + 1,
              !.sleeps = Append(@, Pow2(r.attempt)),
              !.result = IF r.attempt + 1 > MAX_RETRIES THEN "exhausted" ELSE "running"]

\* the except clause of the loops that sleep 2 ** attempt
AttemptFailed(r) == AttemptFailedSleeps(r, Pow2(r.attempt))

\* ------------------------------------------------ video_scraper.py: listing
ValidHref_PrefixOnly(h) == Len(h) >= 3 /\ h[1] = "media"

\* parse_video_metadata: None unless the link is media/....mp4
ValidHref(h) == Len(h) >= 3 /\ h[1] = "media" /\ h[Len(h)] = "mp4"
parse_video_metadata(e) ==
    IF ValidHref(e.href) THEN <<[video |-> e.href, thumbnail |-> e.thumbnail]>> ELSE <<>>

\* `delete_btn["value"] if delete_btn else None` on a button without value
ParseRaises(e) == ValidHref(e.href) /\ e.thumbnail = NoValue

RECURSIVE ParseAll(_)
ParseAll(entries) ==
    IF entries = <<>> THEN <<>>
    ELSE parse_video_metadata(Head(entries)) \o ParseAll(Tail(entries))

\* video_meta['video'].split('/')[-1]
FileName(href) == <<href[Len(href) - 1], href[Len(href)]>>

ListOutcomes == {"ok", "non200", "exc"}

\* one pass of the listing loop: session.get, status check, BeautifulSoup; after
\* the pass that succeeds, the parse of every fieldset, whose KeyError leaves
\* fetch_video_list and fetch_and_clean
FetchListAttempt(o) ==
    /\ pc = "fetch_list" /\ retry.result = "running"
    /\ IF o = "ok"
       THEN /\ retry' = AttemptOk(retry)
            /\ IF \E i \in DOMAIN server : ParseRaises(server[i])
               THEN videos' = <<>> /\ pc' = "sync_raised"
               ELSE videos' = ParseAll(server) /\ pc' = "listed"
       ELSE /\ retry' = AttemptFailed(retry)
            /\ videos' = <<>>
            /\ pc' = IF retry'.result = "exhausted" THEN "listed" ELSE pc
    /\ UNCHANGED <<envVars, ctlVars, idx, sync_day, dlOk, delLog, procVars, schedVars>>

\* fetch_and_clean after fetch_video_list returned: today, makedirs, first record
SyncAfterList ==
    /\ pc = "listed"
    /\ IF videos = <<>>
       THEN /\ pc' = "sync_done"
            /\ UNCHANGED <<fs, retry, idx, sync_day>>
       ELSE /\ sync_day' = DateOf(now)
            /\ fs' = [fs EXCEPT ![DateOf(now)].exists = TRUE]
            /\ idx' = 1
            /\ retry' = StartRetry("download")
            /\ pc' = "download"
    /\ UNCHANGED <<now, server, ctlVars, videos, dlOk, delLog, procVars, schedVars>>

\* --------------------------------------- video_scraper.py: download, delete
OnServer(href) == \E i \in DOMAIN server : server[i].href = href

DownloadOutcomes == {"ok", "partial", "non200", "exc"}

\* one pass of download_video's loop. "partial": status 200, the file is opened
\* (and truncated) and the stream breaks before the last chunk.
DownloadAttempt(o) ==
    /\ pc = "download" /\ retry.result = "running"
    /\ o \in {"ok", "partial"} => OnServer(videos[idx].video) /\ fs[sync_day].exists
    /\ LET href == videos[idx].video
       IN  CASE o = "ok" ->
                  /\ fs' = WriteFile(fs, sync_day, FileName(href), MediaBody(href, TRUE))
                  /\ retry' = AttemptOk(retry)
             [] o = "partial" ->
                  /\ fs' = WriteFile(fs, sync_day, FileName(href), MediaBody(href, FALSE))
                  /\ retry' = AttemptFailed(retry)
             [] OTHER ->
                  /\ fs' = fs
                  /\ retry' = AttemptFailed(retry)
    /\ UNCHANGED <<now, server, pc, ctlVars, syncVars, procVars, schedVars>>

NextRecord_StopsOnFailure ==
    IF idx < Len(videos) /\ retry.result = "ok"
    THEN idx' = idx + 1 /\ retry' = StartRetry("download") /\ pc' = "download"
    ELSE idx' = idx /\ retry' = retry /\ pc' = "sync_done"

\* the for loop of fetch_and_clean moves to the next record, or ends
NextRecord ==
    IF idx < Len(videos)
    THEN idx' = idx + 1 /\ retry' = StartRetry("download") /\ pc' = "download"
    ELSE idx' = idx /\ retry' = retry /\ pc' = "sync_done"

NoThumbnail_OnlyNone(meta) == meta.thumbnail = NoHandle

\* `not video_meta.get('thumbnail')`
NoThumbnail(meta) == meta.thumbnail = NoHandle \/ meta.thumbnail = ""

DownloadSucceeded_Always == TRUE

\* `if self.download_video(video_meta, day_dir):` of fetch_and_clean
DownloadSucceeded == retry.result = "ok"

\* download_video returned: on True delete_video_from_server is called, which
\* returns at once when the record has no thumbnail
DownloadReturn ==
    /\ pc = "download" /\ retry.result \in {"ok", "exhausted"}
    /\ dlOk' = IF retry.result = "ok" THEN dlOk \cup {idx} ELSE dlOk
    /\ IF DownloadSucceeded /\ ~NoThumbnail(videos[idx])
       THEN idx' = idx /\ retry' = StartRetry("delete") /\ pc' = "delete"
       ELSE NextRecord
    /\ UNCHANGED <<envVars, ctlVars, videos, sync_day, delLog, procVars, schedVars>>

\* what a delete request may come to: the status received (or a request error),
\* and whether the camera removed the recording
DeleteOutcomes ==
    { [status |-> "200", removed |-> TRUE],
      [status |-> "204", removed |-> TRUE],
      [status |-> "500", removed |-> FALSE],
      [status |-> "exc", removed |-> FALSE],
      [status |-> "exc", removed |-> TRUE] }

Without(s, h) == SelectSeq(s, LAMBDA e : e.thumbnail # h)

\* one pass of delete_video_from_server's loop: session.post, status check
DeleteAttempt(o) ==
    /\ pc = "delete" /\ retry.result = "running"
    /\ delLog' = Append(delLog, idx)
    /\ server' = IF o.removed THEN Without(server, videos[idx].thumbnail) ELSE server
    /\ retry' = Noted(IF o.status = "200" THEN AttemptOk(retry) ELSE AttemptFailed(retry),
                      o.status)
    /\ UNCHANGED <<now, fs, pc, ctlVars, videos, idx, sync_day, dlOk, procVars, schedVars>>

\* delete_video_from_server returned; its result is not used
DeleteReturn ==
    /\ pc = "delete" /\ retry.result \in {"ok", "exhausted"}
    /\ NextRecord
    /\ UNCHANGED <<envVars, ctlVars, videos, sync_day, dlOk, delLog, procVars, schedVars>>

\* ------------------------------------------- video_processor.py: the bucket
NoDate == -1

\* 'files.txt' and f"{date_str}_combined.mp4"
Manifest == <<"files", "txt">>
OutputName(d) == <<ToString(d) \o "_combined", "mp4">>

\* the order sorted() gives file names: digits sort before letters
LetterRank == ("a" :> 1) @@ ("b" :> 2) @@ ("c" :> 3) @@ ("files" :> 4) @@ ("z" :> 5)
NameRank(n) ==
    IF \E d \in Dates : n = OutputName(d)
    THEN (CHOOSE d \in Dates : n = OutputName(d)) - Cardinality(Dates)
    ELSE LetterRank[n[1]]

RECURSIVE Sorted_Descending(_)
Sorted_Descending(S) ==
    IF S = {} THEN <<>>
    ELSE LET m == CHOOSE x \in S : \A y \in S : NameRank(x) >= NameRank(y)
         IN  <<m>> \o Sorted_Descending(S \ {m})

\* sorted(): ascending
RECURSIVE Sorted(_)
Sorted(S) ==
    IF S = {} THEN <<>>
    ELSE LET m == CHOOSE x \in S : \A y \in S : NameRank(x) <= NameRank(y)
         IN  <<m>> \o Sorted(S \ {m})

get_video_files_AllEntries(d) ==
    IF ~fs[d].exists THEN <<>> ELSE Sorted(DOMAIN fs[d].files)

\* get_video_files: the sorted .mp4 names of the directory
get_video_files(d) ==
    IF ~fs[d].exists THEN <<>>
    ELSE Sorted({ n \in DOMAIN fs[d].files : n[2] = "mp4" })

\* create_ffmpeg_file_list: one line per file, its absolute path
ManifestBody(d, names) ==
    [kind |-> "manifest", from |-> {}, complete |-> TRUE,
     lines |-> [i \in DOMAIN names |-> <<d, names[i]>>]]

\* what ffmpeg's concat writes: the content of every input the manifest names
MergedFrom(f, d) ==
    LET lines == f[d].files[Manifest].lines
    IN  UNION { f[p[1]].files[p[2]].from :
                  p \in { q \in Range(lines) : f[q[1]].exists /\ q[2] \in DOMAIN f[q[1]].files } }
ArtifactBody(f, d, whole) ==
    [kind |-> "artifact", from |-> MergedFrom(f, d), complete |-> whole, lines |-> <<>>]

RemoveFiles(f, d, names) ==
    [f EXCEPT ![d].files = [n \in (DOMAIN f[d].files) \ names |-> f[d].files[n]]]

\* ------------------------------------- video_processor.py: the daily pipeline
ResolveDate(d) == IF d = NoDate THEN DateOf(now) ELSE d

\* process_daily_videos up to the call of ffmpeg: the date, the existence and
\* emptiness checks, and create_ffmpeg_file_list (whose open() may raise)
ProcStart(manifestOk) ==
    /\ pc = "proc_start"
    /\ LET d == ResolveDate(date_str)
           listed == get_video_files(d)
       IN  /\ date_str' = d
           /\ atStart' = fs[d]
           /\ IF ~fs[d].exists \/ listed = <<>>
              THEN /\ manifestOk
                   /\ result' = "False" /\ pc' = "proc_done"
                   /\ UNCHANGED <<fs, files, retry>>
              ELSE /\ files' = listed
                   /\ IF manifestOk
                      THEN /\ fs' = WriteFile(fs, d, Manifest, ManifestBody(d, listed))
                           /\ retry' = StartRetry("merge")
                           /\ pc' = "merge" /\ result' = result
                      ELSE /\ result' = "raised" /\ pc' = "proc_done"
                           /\ UNCHANGED <<fs, retry>>
    /\ UNCHANGED <<now, server, ctlVars, syncVars, stages, failed, youtube_service, uploadVars,
                   schedVars>>

\* what one run of ffmpeg may come to: exit code zero; a non-zero exit or the
\* 300 s timeout, with or without a partly written output; or no run at all
MergeOutcomes ==
    { [end |-> "ok", out |-> "whole"],
      [end |-> "nonzero", out |-> "none"], [end |-> "nonzero", out |-> "partial"],
      [end |-> "timeout", out |-> "none"], [end |-> "timeout", out |-> "partial"],
      [end |-> "exc", out |-> "none"] }

\* one pass of concatenate_videos' loop
MergeAttempt(o) ==
    /\ pc = "merge" /\ retry.result = "running"
    /\ o.end = "ok" => fs[date_str].exists /\ Manifest \in DOMAIN fs[date_str].files
    /\ fs' = IF o.out = "none" \/ ~fs[date_str].exists THEN fs
             ELSE WriteFile(fs, date_str, OutputName(date_str),
                            ArtifactBody(fs, date_str, o.out = "whole"))
    /\ retry' = IF o.end = "ok" THEN AttemptOk(retry) ELSE AttemptFailed(retry)
    /\ UNCHANGED <<now, server, pc, ctlVars, syncVars, procVars, schedVars>>

MergeSucceeded_Always == TRUE

\* `if not self.concatenate_videos(...)` of process_daily_videos
MergeSucceeded == retry.result = "ok"

MergeReturn_RemovesManifestOnFailure ==
    /\ pc = "merge" /\ retry.result \in {"ok", "exhausted"}
    /\ stages' = Append(stages, IF retry.result = "ok" THEN "merge_ok" ELSE "merge_failed")
    /\ IF retry.result = "ok"
       THEN pc' = "upload" /\ result' = result /\ fs' = fs
       ELSE /\ pc' = "proc_done" /\ result' = "False"
            /\ fs' = RemoveFiles(fs, date_str, {Manifest})
    /\ UNCHANGED <<now, server, ctlVars, retry, syncVars, date_str, files, atStart, failed,
                   youtube_service, uploadVars, schedVars>>

\* concatenate_videos returned
MergeReturn ==
    /\ pc = "merge" /\ retry.result \in {"ok", "exhausted"}
    /\ stages' = Append(stages, IF retry.result = "ok" THEN "merge_ok" ELSE "merge_failed")
    /\ IF MergeSucceeded
       THEN pc' = "upload" /\ result' = result
       ELSE pc' = "proc_done" /\ result' = "False"
    /\ UNCHANGED <<envVars, ctlVars, retry, syncVars, date_str, files, atStart, failed,
                   youtube_service, uploadVars, schedVars>>

\* ---------------------------------------------- youtube_uploader.py: publish
RATE_LIMIT_WAIT_AsBackoff == Pow2(retry.attempt)

\* time.sleep(3600) on a rate-limit error
RATE_LIMIT_WAIT == 3600

EnterOutcomes == {"ok", "auth_raises", "media_raises"}

Title_OfToday(d) == <<"prefix", DateOf(now)>>

\* f"{config.YOUTUBE_UPLOAD_TITLE_PREFIX} {date_str}"
Title(d) == <<"prefix", d>>

\* os.path.join(day_dir, output_filename), day_dir being the bucket of date_str
OutputPath(d) == <<d, OutputName(d)>>

SessionUnset_Always == TRUE

\* `if not self.youtube_service:` of upload_video
SessionUnset == ~youtube_service

\* upload_video before its loop: the lazy get_authenticated_service and
\* MediaFileUpload(file_path); an exception of either leaves upload_video and
\* process_daily_videos
UploadEnter(o) ==
    /\ pc = "upload"
    /\ o = "auth_raises" => SessionUnset
    /\ stages' = Append(stages, "publish")
    /\ upload_calls' = Append(upload_calls,
                              [file_path |-> OutputPath(date_str), title |-> Title(date_str)])
    /\ youtube_service' = (youtube_service \/ o # "auth_raises")
    /\ auths' = IF SessionUnset /\ o # "auth_raises" THEN auths + 1 ELSE auths
    /\ IF o = "ok"
       THEN retry' = StartRetry("publish") /\ pc' = "publish" /\ result' = result
       ELSE retry' = retry /\ pc' = "proc_done" /\ result' = "raised"
    /\ UNCHANGED <<envVars, ctlVars, syncVars, date_str, files, atStart, failed, channel,
                   schedVars>>

UploadOutcomes == {"ok", "rate403", "generic"}

\* what MediaFileUpload(file_path) sends: the content of the merged file
Uploaded(f, d) ==
    IF f[d].exists /\ OutputName(d) \in DOMAIN f[d].files
    THEN f[d].files[OutputName(d)].from
    ELSE {}

\* one pass of upload_video's loop: insert, next_chunk until done
UploadAttempt(o) ==
    /\ pc = "publish" /\ retry.result = "running"
    /\ retry' = Logged(CASE o = "ok" -> AttemptOk(retry)
                         [] o = "rate403" -> AttemptFailedSleeps(retry, RATE_LIMIT_WAIT)
                         [] OTHER -> AttemptFailed(retry),
                       o)
    /\ channel' = IF o = "ok" THEN channel \cup Uploaded(fs, date_str) ELSE channel
    /\ UNCHANGED <<envVars, pc, ctlVars, syncVars, date_str, files, atStart, stages, result,
                   failed, youtube_service, auths, upload_calls, schedVars>>

UploadSucceeded_Always == TRUE

\* `if upload_success:` of process_daily_videos
UploadSucceeded == retry.result = "ok"

\* upload_video returned
UploadReturn ==
    /\ pc = "publish" /\ retry.result \in {"ok", "exhausted"}
    /\ stages' = Append(stages, IF retry.result = "ok" THEN "publish_ok" ELSE "publish_failed")
    /\ IF UploadSucceeded
       THEN pc' = "cleanup" /\ result' = result
       ELSE pc' = "proc_done" /\ result' = "False"
    /\ UNCHANGED <<envVars, ctlVars, retry, syncVars, date_str, files, atStart, failed,
                   youtube_service, uploadVars, schedVars>>

NoFailure == [names |-> {}, rmdir |-> FALSE]

\* files + ['files.txt', output_filename]
files_to_delete == Range(files) \cup {Manifest, OutputName(date_str)}

cleanup_files_AllMedia(f, d, names, failing) ==
    IF f[d].exists
    THEN RemoveFiles(f, d, (names \cup { n \in DOMAIN f[d].files : n[2] = "mp4" }) \ failing)
    ELSE f

\* cleanup_files: every listed file that exists is removed, unless os.remove
\* raises for it (the names in failing)
cleanup_files(f, d, names, failing) ==
    IF f[d].exists THEN RemoveFiles(f, d, names \ failing) ELSE f

\* os.rmdir: removes the directory when it is empty and the call does not fail
Rmdir(f, d, fails) ==
    IF f[d].exists /\ DOMAIN f[d].files = {} /\ ~fails
    THEN [f EXCEPT ![d] = EmptyDir]
    ELSE f

\* the success branch of process_daily_videos: cleanup_files, os.rmdir, and
\* the return of res
CleanupReturning(failing, rmdirFails, res) ==
    /\ pc = "cleanup"
    /\ failing \subseteq files_to_delete
    /\ LET after == cleanup_files(fs, date_str, files_to_delete, failing)
       IN  /\ fs' = Rmdir(after, date_str, rmdirFails)
           /\ failed' = [names |-> failing \cap DOMAIN fs[date_str].files,
                         rmdir |-> rmdirFails /\ DOMAIN after[date_str].files = {}]
    /\ stages' = Append(stages, "cleanup")
    /\ result' = res
    /\ pc' = "proc_done"
    /\ UNCHANGED <<now, server, ctlVars, retry, syncVars, date_str, files, atStart,
                   youtube_service, uploadVars, schedVars>>

Cleanup_FailureIsFatal(failing, rmdirFails) ==
    CleanupReturning(failing, rmdirFails,
                     IF failing \cap DOMAIN fs[date_str].files = {} THEN "True" ELSE "False")

\* `return upload_success` after the cleanup: True, whatever failed in it
Cleanup(failing, rmdirFails) == CleanupReturning(failing, rmdirFails, "True")

\* ------------------------------------------------------------ environment
\* time passes. The clock is read at the top of a tick, in
\* should_run_daily_process, in fetch_and_clean after the listing, when
\* process_daily_videos begins and when run_daily_process records a success;
\* elsewhere the passing of time shows nowhere, so it is let pass before a read.
ClockReads == {"start", "exit", "listed", "loop_head", "daily_check", "proc_start", "proc_done"}
Elapse ==
    /\ pc \in ClockReads
    /\ now < MaxNow
    /\ now' = now + 1
    /\ UNCHANGED <<server, fs, pc, ctlVars, retry, syncVars, procVars, schedVars>>

\* a writer outside this process puts a file into the bucket while a daily
\* run is between its listing and its cleanup
Stray == <<"z", "mp4">>
ConcurrentWrite ==
    /\ pc \in {"merge", "upload", "publish", "cleanup"}
    /\ fs[date_str].exists /\ Stray \notin DOMAIN fs[date_str].files
    /\ fs' = WriteFile(fs, date_str, Stray, MediaBody(<<"media", "z", "mp4">>, TRUE))
    /\ UNCHANGED <<now, server, pc, ctlVars, retry, syncVars, procVars, schedVars>>

\* ------------------------------------------------------ main.py: one-shot
\* main() with --mode scrape, or --mode daily with or without --date
Main(m, d) ==
    /\ pc \in {"start", "exit"}
    /\ runs < MaxRuns
    /\ runs' = runs + 1
    /\ mode' = m
    /\ exitCode' = "none"
    /\ IF m = "scrape"
       THEN /\ d = NoDate
            /\ pc' = "fetch_list"
            /\ retry' = StartRetry("list")
            /\ UNCHANGED <<syncVars, procVars>>
       ELSE /\ pc' = "proc_start"
            /\ retry' = NoRetry
            /\ date_str' = d
            /\ UNCHANGED <<files, atStart, stages, result, failed, youtube_service,
                           uploadVars, syncVars>>
    /\ UNCHANGED <<envVars, schedVars>>

\* main() leaves with sys.exit(1) before any stage: config.validate() raised
\* ValueError (RPICAM_BASE_URL is not set), or --date is given and strptime
\* rejects it
RejectReasons == {"config", "date"}
MainRejects(m, why) ==
    /\ pc \in {"start", "exit"}
    /\ runs < MaxRuns
    /\ why \in RejectReasons
    /\ runs' = runs + 1
    /\ mode' = m
    /\ exitCode' = "1"
    /\ pc' = "exit"
    /\ UNCHANGED <<envVars, retry, syncVars, procVars, schedVars>>

\* what the process holds when it begins, and no longer holds once it has exited
FreshSync ==
    /\ videos' = <<>> /\ idx' = 0 /\ sync_day' = 0 /\ dlOk' = {} /\ delLog' = <<>>
FreshProc ==
    /\ date_str' = NoDate /\ files' = <<>> /\ atStart' = EmptyDir
    /\ stages' = <<>> /\ result' = "none" /\ failed' = NoFailure
    /\ youtube_service' = FALSE /\ auths' = 0
    /\ upload_calls' = <<>> /\ channel' = channel

\* fetch_and_clean returned to main, or raised into its except clause: the
\* process ends
MainScrapeDone ==
    /\ pc \in {"sync_done", "sync_raised"} /\ mode = "scrape"
    /\ pc' = "exit"
    /\ exitCode' = IF pc = "sync_done" THEN "0" ELSE "1"
    /\ retry' = NoRetry /\ FreshSync
    /\ UNCHANGED <<envVars, mode, runs, procVars, schedVars>>

\* process_daily_videos returned to main, or raised into its except clause:
\* the process ends
MainDailyDone ==
    /\ pc = "proc_done" /\ mode = "daily"
    /\ pc' = "exit"
    /\ exitCode' = IF result = "True" THEN "0" ELSE "1"
    /\ retry' = NoRetry /\ FreshProc
    /\ UNCHANGED <<envVars, mode, runs, syncVars, schedVars>>

\* signal_handler, on SIGINT or SIGTERM: sys.exit(0) raises SystemExit in the
\* main thread where it stands. No `except Exception` of a stage catches it,
\* the process ends with code 0, and so does the scheduler's daemon thread. A
\* file download_video was writing (cut) stays as far as it was written.
Signal(cut) ==
    /\ mode \in {"scrape", "daily", "scheduler"}
    /\ pc \notin {"start", "exit"}
    /\ cut => /\ pc = "download" /\ retry.result = "running"
              /\ OnServer(videos[idx].video) /\ fs[sync_day].exists
    /\ fs' = IF cut
             THEN WriteFile(fs, sync_day, FileName(videos[idx].video),
                            MediaBody(videos[idx].video, FALSE))
             ELSE fs
    /\ pc' = "exit"
    /\ exitCode' = "0"
    /\ retry' = NoRetry /\ FreshSync /\ FreshProc
    /\ running' = FALSE
    /\ UNCHANGED <<now, server, mode, runs, last_daily_process, last_scrape, tick_now,
                   triggered, recorded, lifeVars>>

\* ------------------------------------------------------------ scheduler.py
\* config.SCRAPE_INTERVAL_MINUTES, in clock slots
SCRAPE_INTERVAL == 1
\* config.DAILY_PROCESS_TIME ("23:59"): the last slot of the day
DAILY_PROCESS_TIME == SlotsPerDay - 1

\* datetime.datetime.min
NoTime == -1
NoTrigger == [date |-> NoDate, end |-> "none"]

ScrapeDue_Strict(t) == last_scrape = NoTime \/ t - last_scrape > SCRAPE_INTERVAL

\* `now - last_scrape >= scrape_interval`
ScrapeDue(t) == last_scrape = NoTime \/ t - last_scrape >= SCRAPE_INTERVAL

should_run_daily_process_TimeOnly == now % SlotsPerDay >= DAILY_PROCESS_TIME

\* should_run_daily_process: the target time of today has passed and the last
\* successful run was not today
should_run_daily_process ==
    /\ now % SlotsPerDay >= DAILY_PROCESS_TIME
    /\ (last_daily_process = NoDate \/ last_daily_process # DateOf(now))

\* main() with --mode scheduler: RPiCamScheduler(), start(), run_scheduler begins
MainScheduler ==
    /\ pc = "start"
    /\ mode' = "scheduler"
    /\ running' = TRUE
    /\ last_scrape' = NoTime
    /\ pc' = "loop_head"
    /\ UNCHANGED <<envVars, runs, exitCode, retry, syncVars, procVars,
                   last_daily_process, tick_now, triggered, recorded, lifeVars>>

TickBegin_ScrapeInBackground ==
    /\ pc = "loop_head" /\ mode = "scheduler"
    /\ IF ~running
       THEN pc' = "stopped" /\ UNCHANGED <<tick_now, retry>>
       ELSE /\ tick_now' = now
            /\ pc' = "daily_check"
            /\ retry' = IF ScrapeDue(now) THEN StartRetry("list") ELSE retry
    /\ UNCHANGED <<envVars, ctlVars, syncVars, procVars, running, last_daily_process,
                   last_scrape, triggered, recorded, lifeVars>>

\* `while self.running:`, `now = datetime.datetime.now()` and the scrape check,
\* which calls run_scraping
TickBegin ==
    /\ pc = "loop_head" /\ mode = "scheduler"
    /\ IF ~running
       THEN pc' = "stopped" /\ UNCHANGED <<tick_now, retry>>
       ELSE /\ tick_now' = now
            /\ IF ScrapeDue(now)
               THEN pc' = "fetch_list" /\ retry' = StartRetry("list")
               ELSE pc' = "daily_check" /\ retry' = retry
    /\ UNCHANGED <<envVars, ctlVars, syncVars, procVars, running, last_daily_process,
                   last_scrape, triggered, recorded, lifeVars>>

\* run_scraping returned, fetch_and_clean having returned or raised into its
\* except clause: `last_scrape = now`
SchedScrapeDone ==
    /\ pc \in {"sync_done", "sync_raised"} /\ mode = "scheduler"
    /\ last_scrape' = tick_now
    /\ pc' = "daily_check"
    /\ retry' = NoRetry /\ FreshSync
    /\ UNCHANGED <<envVars, ctlVars, procVars, lifeVars, running, last_daily_process, tick_now,
                   triggered, recorded>>

\* `if self.should_run_daily_process(): self.run_daily_process()`
DailyCheck ==
    /\ pc = "daily_check"
    /\ IF should_run_daily_process
       THEN /\ pc' = "proc_start"
            /\ triggered' = [date |-> DateOf(now), end |-> "running"]
       ELSE /\ pc' = "sleep"
            /\ triggered' = triggered
    /\ UNCHANGED <<envVars, ctlVars, retry, syncVars, procVars, running,
                   last_daily_process, last_scrape, tick_now, recorded, lifeVars>>

DailySucceeded_Always == TRUE

\* `if success:` of run_daily_process
DailySucceeded == result = "True"

SchedDailyDone_FailureEndsLoop ==
    /\ pc = "proc_done" /\ mode = "scheduler"
    /\ IF DailySucceeded
       THEN /\ last_daily_process' = DateOf(now)
            /\ recorded' = [recorded EXCEPT ![DateOf(now)] = @ + 1]
       ELSE UNCHANGED <<last_daily_process, recorded>>
    /\ triggered' = [triggered EXCEPT !.end = result]
    /\ pc' = IF result = "raised" THEN "stopped" ELSE "sleep"
    /\ retry' = NoRetry
    /\ date_str' = NoDate /\ files' = <<>> /\ atStart' = EmptyDir
    /\ stages' = <<>> /\ result' = "none" /\ failed' = NoFailure
    /\ upload_calls' = <<>>
    /\ UNCHANGED <<envVars, ctlVars, syncVars, youtube_service, auths, channel, running, last_scrape,
                   tick_now, lifeVars>>

\* process_daily_videos returned to run_daily_process, or raised into its
\* except clause
SchedDailyDone ==
    /\ pc = "proc_done" /\ mode = "scheduler"
    /\ IF DailySucceeded
       THEN /\ last_daily_process' = DateOf(now)
            /\ recorded' = [recorded EXCEPT ![DateOf(now)] = @ + 1]
       ELSE UNCHANGED <<last_daily_process, recorded>>
    /\ triggered' = [triggered EXCEPT !.end = result]
    /\ pc' = "sleep"
    /\ retry' = NoRetry
    /\ date_str' = NoDate /\ files' = <<>> /\ atStart' = EmptyDir
    /\ stages' = <<>> /\ result' = "none" /\ failed' = NoFailure
    /\ upload_calls' = <<>>
    /\ UNCHANGED <<envVars, ctlVars, syncVars, youtube_service, auths, channel, running, last_scrape,
                   tick_now, lifeVars>>

\* time.sleep(60) at the bottom of the loop
TickSleep ==
    /\ pc = "sleep"
    /\ pc' = "loop_head"
    /\ UNCHANGED <<envVars, ctlVars, retry, syncVars, procVars, schedVars>>

\* ------------------------------------- scheduler.py: start, stop, the threads
\* The scheduler object as its owner uses it: start() and stop() in any order,
\* every thread start() created running run_scheduler. A stage is two steps
\* here, its call and its return; what it does to the camera and the buckets
\* is left to the actions above.
NewLoop == [at |-> "head", last_scrape |-> NoTime, tick_now |-> 0]

AlreadyRunning_Never == FALSE

\* `if self.running:` of start
AlreadyRunning == running

\* start(): a no-op with a message when running, else the flag is set and a
\* thread is created and started
LifeStart ==
    /\ calls.starts < MaxCalls
    /\ calls' = [calls EXCEPT !.starts = @ + 1]
    /\ IF AlreadyRunning
       THEN UNCHANGED <<running, loops>>
       ELSE running' = TRUE /\ loops' = Append(loops, NewLoop)
    /\ UNCHANGED <<envVars, pc, ctlVars, retry, syncVars, procVars, last_daily_process,
                   last_scrape, tick_now, triggered, recorded>>

\* stop(): `self.running = False`
LifeStop ==
    /\ calls.stops < MaxCalls
    /\ calls' = [calls EXCEPT !.stops = @ + 1]
    /\ running' = FALSE
    /\ UNCHANGED <<envVars, pc, ctlVars, retry, syncVars, procVars, last_daily_process,
                   last_scrape, tick_now, triggered, recorded, loops>>

LoopFrame ==
    UNCHANGED <<envVars, pc, ctlVars, retry, syncVars, procVars, running, last_scrape,
                tick_now, triggered, recorded, calls>>

LoopHead_FlagReadAfterScrapeCheck(t) ==
    /\ loops[t].at = "head"
    /\ LET l == loops[t]
           due == l.last_scrape = NoTime \/ now - l.last_scrape >= SCRAPE_INTERVAL
       IN  loops' = [loops EXCEPT ![t] =
              IF due THEN [l EXCEPT !.tick_now = now, !.at = "scrape"]
              ELSE IF ~running THEN [l EXCEPT !.at = "exited"]
              ELSE [l EXCEPT !.tick_now = now, !.at = "check"]]
    /\ UNCHANGED last_daily_process /\ LoopFrame

\* `while self.running:`, `now = datetime.datetime.now()`, the scrape check and
\* the call of run_scraping
LoopHead(t) ==
    /\ loops[t].at = "head"
    /\ LET l == loops[t]
           due == l.last_scrape = NoTime \/ now - l.last_scrape >= SCRAPE_INTERVAL
       IN  loops' = [loops EXCEPT ![t] =
              IF ~running THEN [l EXCEPT !.at = "exited"]
              ELSE [l EXCEPT !.tick_now = now,
                             !.at = IF due THEN "scrape" ELSE "check"]]
    /\ UNCHANGED last_daily_process /\ LoopFrame

\* run_scraping returned: `last_scrape = now`
LoopScrapeReturn(t) ==
    /\ loops[t].at = "scrape"
    /\ loops' = [loops EXCEPT ![t] =
                    [loops[t] EXCEPT !.last_scrape = loops[t].tick_now, !.at = "check"]]
    /\ UNCHANGED last_daily_process /\ LoopFrame

\* `if self.should_run_daily_process():` and the call of run_daily_process
LoopDailyCheck(t) ==
    /\ loops[t].at = "check"
    /\ loops' = [loops EXCEPT ![t].at = IF should_run_daily_process THEN "daily" ELSE "sleep"]
    /\ UNCHANGED last_daily_process /\ LoopFrame

\* run_daily_process returned, process_daily_videos having returned True (ok) or
\* having returned False or raised
LoopDailyReturn(t, ok) ==
    /\ loops[t].at = "daily"
    /\ last_daily_process' = IF ok THEN DateOf(now) ELSE last_daily_process
    /\ loops' = [loops EXCEPT ![t].at = "sleep"]
    /\ LoopFrame

\* time.sleep(60) is over
LoopSleep(t) ==
    /\ loops[t].at = "sleep"
    /\ loops' = [loops EXCEPT ![t].at = "head"]
    /\ UNCHANGED last_daily_process /\ LoopFrame

\* the steps of thread t
LoopStep(t) ==
    /\ t \in DOMAIN loops
    /\ \/ LoopHead(t)
       \/ LoopScrapeReturn(t)
       \/ LoopDailyCheck(t)
       \/ \E ok \in BOOLEAN : LoopDailyReturn(t, ok)
       \/ LoopSleep(t)

\* ------------------------------------------------------- specifications
NoCalls == [starts |-> 0, stops |-> 0]

NoBuckets == [d \in Dates |-> EmptyDir]

\* everything but the camera, the bucket and the clock, as construction leaves it
InitFields ==
    /\ runs = 0 /\ exitCode = "none"
    /\ retry = NoRetry
    /\ videos = <<>> /\ idx = 0 /\ sync_day = 0 /\ dlOk = {} /\ delLog = <<>>
    /\ date_str = NoDate /\ files = <<>> /\ atStart = EmptyDir
    /\ stages = <<>> /\ result = "none" /\ failed = NoFailure
    /\ youtube_service = FALSE /\ auths = 0
    /\ upload_calls = <<>> /\ channel = {}
    /\ last_daily_process = NoDate
    /\ last_scrape = NoTime /\ tick_now = 0
    /\ triggered = NoTrigger /\ recorded = [d \in Dates |-> 0]
    /\ loops = <<>> /\ calls = NoCalls

InitProcess ==
    /\ pc = "start"
    /\ mode = "none"
    /\ running = FALSE
    /\ InitFields

Init ==
    /\ now \in 0..MaxNow
    /\ server \in Listings \cup {<<ValueLess>>}
    /\ fs = NoBuckets
    /\ InitProcess

\* the buckets earlier syncs may have left for a day: some of the camera's
\* recordings, each whole or cut short by a broken download
MediaHrefs == { e.href : e \in { c \in Catalog : ValidHref(c.href) } }
BucketsOfSync ==
    { [exists |-> TRUE, files |-> [n \in { FileName(h) : h \in H } |->
            MediaBody(CHOOSE h \in H : FileName(h) = n, n \in { FileName(h) : h \in W })]] :
        H \in { X \in SUBSET MediaHrefs : Cardinality(X) <= MaxListing },
        W \in SUBSET MediaHrefs }
    \cup {EmptyDir}

\* the scheduler starts at the beginning of the first day, the camera showing
\* at most one recording
InitSched ==
    /\ now = 0
    /\ server \in { l \in Listings : Len(l) <= 1 } \cup {<<ValueLess>>}
    /\ fs = NoBuckets
    /\ InitProcess

\* main.py --mode scheduler has called start() as the first day begins: the
\* loop thread stands at its first `while self.running`
InitAllDay ==
    /\ now = 0
    /\ server \in { l \in Listings : Len(l) <= 1 } \cup {<<ValueLess>>}
    /\ fs = NoBuckets
    /\ pc = "loop_head"
    /\ mode = "scheduler"
    /\ running = TRUE
    /\ InitFields

\* the camera lists two recordings of the same file name, one of them in a
\* folder of media/
Nested == [href |-> <<"media", "sub", "a", "mp4">>, thumbnail |-> "t5"]
InitSameName ==
    /\ now \in 0..MaxNow
    /\ server \in { <<[href |-> <<"media", "a", "mp4">>, thumbnail |-> "t1"], Nested>>,
                    <<Nested, [href |-> <<"media", "a", "mp4">>, thumbnail |-> "t1"]>> }
    /\ fs = NoBuckets
    /\ InitProcess

\* fetch_video_list is called on any preview page
InitParse ==
    /\ now = 0
    /\ server \in Pages
    /\ fs = NoBuckets
    /\ InitProcess

\* a scheduler just constructed, at the beginning of the first day
InitLife ==
    /\ now = 0
    /\ server = <<>>
    /\ fs = NoBuckets
    /\ InitProcess

InitDaily ==
    /\ now \in 0..MaxNow
    /\ server = <<>>
    /\ \E b \in BucketsOfSync : fs = [NoBuckets EXCEPT ![0] = b]
    /\ InitProcess

Sync ==
    \/ \E o \in ListOutcomes : FetchListAttempt(o)
    \/ SyncAfterList
    \/ \E o \in DownloadOutcomes : DownloadAttempt(o)
    \/ DownloadReturn
    \/ \E o \in DeleteOutcomes : DeleteAttempt(o)
    \/ DeleteReturn

Daily ==
    \/ \E ok \in BOOLEAN : ProcStart(ok)
    \/ \E o \in MergeOutcomes : MergeAttempt(o)
    \/ MergeReturn
    \/ \E o \in EnterOutcomes : UploadEnter(o)
    \/ \E o \in UploadOutcomes : UploadAttempt(o)
    \/ UploadReturn
    \/ \E failing \in SUBSET files_to_delete : \E rf \in BOOLEAN : Cleanup(failing, rf)

\* main.py --mode scrape, time and again
NextSync ==
    \/ Main("scrape", NoDate)
    \/ \E why \in RejectReasons : MainRejects("scrape", why)
    \/ MainScrapeDone
    \/ Sync
    \/ Elapse

\* main.py --mode scrape, once, up to the return of fetch_video_list
NextParse ==
    \/ Main("scrape", NoDate)
    \/ \E o \in ListOutcomes : FetchListAttempt(o)

\* main.py --mode daily [--date d], time and again
NextDaily ==
    \/ \E d \in Dates \cup {NoDate} : Main("daily", d)
    \/ \E why \in RejectReasons : MainRejects("daily", why)
    \/ MainDailyDone
    \/ Daily
    \/ ConcurrentWrite
    \/ Elapse

\* main.py in either one-shot mode, time and again
Next ==
    \/ \E m \in {"scrape", "daily"}, d \in Dates \cup {NoDate} : Main(m, d)
    \/ MainScrapeDone
    \/ MainDailyDone
    \/ Sync
    \/ Daily
    \/ Elapse

\* main.py --mode scrape, time and again, a signal arriving at any moment
NextSignal ==
    \/ NextSync
    \/ \E cut \in BOOLEAN : Signal(cut)

\* main.py --mode scheduler
NextSched ==
    \/ MainScheduler
    \/ TickBegin
    \/ SchedScrapeDone
    \/ DailyCheck
    \/ SchedDailyDone
    \/ TickSleep
    \/ Sync
    \/ Daily
    \/ Elapse

\* the loop of run_scheduler, once started
NextAllDay ==
    \/ TickBegin
    \/ SchedScrapeDone
    \/ DailyCheck
    \/ SchedDailyDone
    \/ TickSleep
    \/ Sync
    \/ Daily
    \/ Elapse

\* a step in which a collaborator fails: a pass of a retry loop that does not
\* succeed, an exception leaving process_daily_videos, an os.remove or os.rmdir
\* that raises
FailingStep ==
    \/ retry'.attempt = retry.attempt + 1 /\ retry'.result # "ok"
    \/ result' = "raised"
    \/ pc = "cleanup" /\ failed' # NoFailure

\* the collaborators fail on the first day at most
Settled == DateOf(now) >= 1 => ~FailingStep

\* the loop of run_scheduler, once started, its collaborators failing for a
\* while and succeeding from then on
NextSettle ==
    \/ TickBegin
    \/ SchedScrapeDone
    \/ DailyCheck
    \/ SchedDailyDone
    \/ TickSleep
    \/ Sync /\ Settled
    \/ Daily /\ Settled
    \/ Elapse

\* main.py --mode scheduler, no os.remove and no os.rmdir of a cleanup failing
NextRecover ==
    \/ MainScheduler
    \/ TickBegin
    \/ SchedScrapeDone
    \/ DailyCheck
    \/ SchedDailyDone
    \/ TickSleep
    \/ Sync
    \/ \E ok \in BOOLEAN : ProcStart(ok)
    \/ \E o \in MergeOutcomes : MergeAttempt(o)
    \/ MergeReturn
    \/ \E o \in EnterOutcomes : UploadEnter(o)
    \/ \E o \in UploadOutcomes : UploadAttempt(o)
    \/ UploadReturn
    \/ Cleanup({}, FALSE)
    \/ Elapse

\* a scheduler object in the hands of its owner
NextLife ==
    \/ LifeStart
    \/ LifeStop
    \/ \E t \in DOMAIN loops : LoopHead(t)
    \/ \E t \in DOMAIN loops : LoopScrapeReturn(t)
    \/ \E t \in DOMAIN loops : LoopDailyCheck(t)
    \/ \E t \in DOMAIN loops : \E ok \in BOOLEAN : LoopDailyReturn(t, ok)
    \/ \E t \in DOMAIN loops : LoopSleep(t)
    \/ Elapse

SpecSync == Init /\ [][NextSync]_vars
SpecParse == InitParse /\ [][NextParse]_vars
SpecDaily == InitDaily /\ [][NextDaily]_vars
SpecSched == InitSched /\ [][NextSched]_vars

\* the loop thread is scheduled, and every call it makes returns: requests
\* carry timeouts, ffmpeg has one, a sleep ends
LoopProgress ==
    \/ TickBegin \/ SchedScrapeDone \/ DailyCheck \/ SchedDailyDone \/ TickSleep
    \/ Sync \/ Daily
SpecSchedFair == SpecSched /\ WF_vars(LoopProgress)

SpecRecover == InitSched /\ [][NextRecover]_vars
SpecAllDay == InitAllDay /\ [][NextAllDay]_vars
SpecSameName == InitSameName /\ [][NextSync]_vars

\* the loop thread is scheduled, every call returns, and the clock advances
SpecSettle ==
    /\ InitAllDay /\ [][NextSettle]_vars
    /\ WF_vars(NextSettle /\ now' = now)
    /\ SF_vars(Elapse)

SpecSignal == Init /\ [][NextSignal]_vars
Spec == Init /\ [][Next]_vars
SpecLife == InitLife /\ [][NextLife]_vars

\* every thread that can take a step takes one: a stage returns, a sleep ends
SpecLifeFair == SpecLife /\ \A t \in 1..MaxCalls : WF_vars(LoopStep(t))

\* ================================================================ claims
\* ---------------------------------------------------- Fetch-and-Purge stage
HasHandle(meta) == meta.thumbnail \notin {NoHandle, ""}
Requested(i) == \E k \in DOMAIN delLog : delLog[k] = i
\* the record's part of fetch_and_clean is over
Processed(i) == i < idx \/ pc = "sync_done"

\* C1: in fetch_and_clean a delete request is issued for a record only after
\* download_video returned True for that record in the same sync, and while
\* the requests are issued the bucket holds the record's complete body.
C1_DeleteOnlyAfterDownload ==
    /\ \A i \in DOMAIN videos : Requested(i) => i \in dlOk
    /\ pc = "delete" =>
         /\ idx \in dlOk
         /\ FileAt(sync_day, FileName(videos[idx].video)) = MediaBody(videos[idx].video, TRUE)

\* a delete request has gone out and the camera has dropped the recording
C1_Witness ==
    /\ pc = "delete" /\ Requested(idx)
    /\ ~OnServer(videos[idx].video)

\* C2: for every record of the listing whose processing is over, a delete
\* request was sent iff its download succeeded and it has a non-empty handle;
\* a failed download or a missing handle means no request at all.
C2_DeleteIffHandle ==
    /\ \A i \in DOMAIN videos :
         Processed(i) => (Requested(i) <=> (i \in dlOk /\ HasHandle(videos[i])))
    /\ \A i \in DOMAIN videos : Requested(i) => (i \in dlOk /\ HasHandle(videos[i]))

\* a sync of two records, both downloaded: the one with a handle got its
\* request, the one without (None or "") got none
C2_Witness ==
    /\ pc = "sync_done" /\ Len(videos) = 2 /\ dlOk = {1, 2}
    /\ \E i, j \in {1, 2} :
         /\ HasHandle(videos[i]) /\ Requested(i)
         /\ videos[j].thumbnail = "" /\ ~Requested(j)

\* ------------------------------------------------------------ Daily Pipeline
InStages(e) == \E i \in DOMAIN stages : stages[i] = e
Precedes(a, b) == \A j \in DOMAIN stages : stages[j] = b => \E i \in 1..(j - 1) : stages[i] = a
InRun == pc \in {"merge", "upload", "publish", "cleanup", "proc_done"}
NoMp4(b) == ~b.exists \/ \A n \in DOMAIN b.files : n[2] # "mp4"
Originals(b) == { n \in DOMAIN b.files : b.files[n].kind = "media" }

\* C3: a downloaded media file of a bucket is removed or rewritten only by the
\* cleanup of a run whose publish step returned success; and while the publish
\* step of a run has not returned success (so also when the run returns after
\* a failed merge or a failed publish) every media file that was in the bucket
\* when the run began is still there, unchanged.
C3_OriginalsKeptUntilPublished ==
    /\ [][ \A d \in Dates : \A n \in Originals(fs[d]) :
             FileAt(d, n) # (IF n \in DOMAIN fs'[d].files THEN fs'[d].files[n] ELSE NoFile)
                => (pc = "cleanup" /\ d = date_str /\ stages[Len(stages)] = "publish_ok") ]_vars
    /\ [] ((InRun /\ ~InStages("publish_ok")) =>
             \A n \in Originals(atStart) : FileAt(date_str, n) = atStart.files[n])

\* a second run on a bucket that still holds the artifact of an earlier run
\* fails to publish again and returns with the originals in place
C3_Witness ==
    /\ pc = "proc_done" /\ result = "False" /\ InStages("publish_failed")
    /\ runs = 2
    /\ \E n \in DOMAIN atStart.files : atStart.files[n].kind = "artifact"
    /\ Originals(atStart) # {}

\* C4: process_daily_videos returns True iff its publish step returned
\* success; a run that stops at no bucket, no files, a failed merge or a failed
\* publish returns False, and failures inside the cleanup do not change a True.
C4_TrueIffPublished ==
    pc = "proc_done" =>
        /\ result = "True" <=> InStages("publish_ok")
        /\ (NoMp4(atStart) \/ InStages("merge_failed") \/ InStages("publish_failed"))
              => result = "False"

\* a run returned True although a deletion failed and the directory stayed
C4_Witness ==
    /\ pc = "proc_done" /\ result = "True"
    /\ failed.names # {}
    /\ \E n \in Range(files) : FileAt(date_str, n) # NoFile

\* C5: when the day's bucket does not exist or holds no .mp4 file,
\* process_daily_videos returns False at once: no file of any bucket is
\* written or removed, ffmpeg is not run and the uploader is not called.
C5_NoBucketNoEffect ==
    [][ (/\ pc = "proc_start" /\ pc' # "proc_start"
         /\ NoMp4(fs[IF date_str = NoDate THEN DateOf(now) ELSE date_str]))
        => (/\ pc' = "proc_done" /\ result' = "False"
            /\ fs' = fs
            /\ stages' = <<>> /\ retry' = retry
            /\ youtube_service' = youtube_service) ]_vars

\* a run returned False at once on a bucket that exists and holds only the
\* manifest an earlier cleanup could not delete
C5_Witness ==
    /\ pc = "proc_done" /\ result = "False" /\ stages = <<>>
    /\ atStart.exists /\ DOMAIN atStart.files = {Manifest}
    /\ fs[date_str] = atStart

\* the step in which the cleanup of a run takes place
CleanupStep == pc = "cleanup" /\ pc' = "proc_done"
Listed == Range(files) \cup {Manifest, OutputName(date_str)}
OthersUntouched(gone) ==
    /\ DOMAIN fs'[date_str].files = DOMAIN fs[date_str].files \ gone
    /\ \A n \in DOMAIN fs'[date_str].files : fs'[date_str].files[n] = fs[date_str].files[n]
    /\ \A d \in Dates \ {date_str} : fs'[d] = fs[d]

\* C6, as claimed: the cleanup removes exactly the listed originals, the
\* manifest and the artifact, and the directory iff nothing is left in it.
C6_AsClaimed ==
    [][ CleanupStep =>
          /\ OthersUntouched(Listed)
          /\ fs'[date_str].exists <=> DOMAIN fs'[date_str].files # {} ]_vars

\* C6, amended: the cleanup removes exactly those of the listed originals, the
\* manifest and the artifact whose deletion does not fail, leaves every other
\* entry untouched, and removes the directory iff nothing is left in it and
\* os.rmdir itself does not fail.
C6_CleanupRemovesListedOnly ==
    [][ CleanupStep =>
          /\ OthersUntouched(Listed \ failed'.names)
          /\ fs'[date_str].exists <=> (DOMAIN fs'[date_str].files # {} \/ failed'.rmdir) ]_vars

\* a cleanup has left a file written after the listing, and a listed file
\* whose deletion failed
C6_Witness ==
    /\ pc = "proc_done" /\ result = "True"
    /\ Stray \in DOMAIN fs[date_str].files /\ Stray \notin Range(files)
    /\ failed.names # {}

\* C7: the publish step is entered only after the merge of the same run
\* returned success, and the cleanup only after its publish returned success.
C7_StagesInOrder ==
    /\ pc \in {"upload", "publish", "cleanup"} => InStages("merge_ok")
    /\ pc = "cleanup" => InStages("publish_ok")
    /\ Precedes("merge_ok", "publish")
    /\ Precedes("publish_ok", "cleanup")
    /\ InStages("publish") => ~InStages("merge_failed")
    /\ InStages("cleanup") => ~InStages("publish_failed")

\* a run went through all three stages
C7_Witness ==
    /\ pc = "proc_done"
    /\ stages = <<"merge_ok", "publish", "publish_ok", "cleanup">>

\* ------------------------------------------------------------ Scheduler
AtOrAfterDailyTime == now % SlotsPerDay >= DAILY_PROCESS_TIME
DailyReturns == pc = "proc_done" /\ mode = "scheduler" /\ pc' = "sleep"
DailyChecked == pc = "daily_check" /\ pc' # "daily_check"

\* C8: once a run triggered by the scheduler has returned True and its date is
\* recorded, no later tick of that calendar date triggers the Daily Pipeline,
\* and no date has more than one successful triggered run recorded.
C8_OncePerDate ==
    /\ [][ (DailyChecked /\ last_daily_process = DateOf(now))
             => (pc' = "sleep" /\ UNCHANGED <<result, stages, recorded, fs>>) ]_vars
    /\ [] (\A d \in Dates : recorded[d] <= 1)

\* a later tick reaches the daily check past the configured time on the date
\* already recorded
C8_Witness ==
    /\ pc = "daily_check" /\ AtOrAfterDailyTime
    /\ last_daily_process = DateOf(now)
    /\ recorded[DateOf(now)] = 1
    /\ triggered = [date |-> DateOf(now), end |-> "True"]

\* C9: a triggered run that returns False or raises leaves last_daily_process
\* unchanged, only a run that returns True changes it, and the next daily check
\* on the date of the failed trigger triggers the Daily Pipeline again.
C9_FailedRunRetried ==
    [][ /\ DailyReturns =>
            /\ result \in {"False", "raised"} => last_daily_process' = last_daily_process
            /\ last_daily_process' # last_daily_process => result = "True"
        /\ (/\ DailyChecked
            /\ triggered.date = DateOf(now)
            /\ triggered.end \in {"False", "raised"})
              => (pc' = "proc_start" /\ AtOrAfterDailyTime) ]_vars

\* a tick is at the daily check on the date on which the last triggered run
\* raised and nothing has been recorded
C9_Witness ==
    /\ pc = "daily_check"
    /\ triggered = [date |-> DateOf(now), end |-> "raised"]
    /\ last_daily_process = NoDate

\* ------------------------------------------------------------ Retry Policy
RetryLoops == {"list", "download", "delete", "merge", "publish"}

\* C10, as claimed: a retry loop whose every attempt failed has made
\* MAX_RETRIES attempts and slept MAX_RETRIES - 1 times.
C10_AsClaimed ==
    retry.result = "exhausted" =>
        /\ retry.attempt = MAX_RETRIES
        /\ Len(retry.sleeps) = MAX_RETRIES - 1

\* C10, amended: each of the five retry loops, when every attempt fails, makes
\* exactly MAX_RETRIES attempts and sleeps exactly MAX_RETRIES times, once
\* after every failed attempt, the last included.
C10_SleepsAfterEveryFailure ==
    /\ retry.loop \in RetryLoops \cup {"none"}
    /\ retry.result \in {"running", "exhausted"} => Len(retry.sleeps) = retry.attempt
    /\ retry.result = "running" => retry.attempt < MAX_RETRIES
    /\ retry.result = "exhausted" =>
         /\ retry.attempt = MAX_RETRIES
         /\ Len(retry.sleeps) = MAX_RETRIES

\* the publish loop has failed on every attempt, backing off 1, 2 and 4 seconds
C10_Witness ==
    /\ retry.loop = "publish" /\ retry.result = "exhausted"
    /\ retry.attempt = 3
    /\ retry.sleeps = <<1, 2, 4>>

\* ------------------------------------------------------------ Publish
InPublish == retry.loop = "publish"
AllOutcomes(o) == \A i \in DOMAIN retry.outcomes : retry.outcomes[i] = o
PublishAttempted == pc = "publish" /\ retry'.attempt = retry.attempt + 1
PublishReturned == pc = "publish" /\ pc' # "publish"
ReturnsFalse ==
    /\ pc' = "proc_done" /\ result' = "False"
    /\ stages' = Append(stages, "publish_failed")

\* C11: upload_video whose every attempt fails with a generic error starts
\* exactly MAX_RETRIES upload requests, sleeps exactly MAX_RETRIES times, once
\* after each failed attempt, makes no further request and returns False.
C11_GenericFailureExhausts ==
    /\ [] (InPublish => /\ Len(retry.outcomes) = retry.attempt
                        /\ retry.attempt <= MAX_RETRIES)
    /\ [] ((InPublish /\ AllOutcomes("generic")) =>
             /\ Len(retry.sleeps) = Len(retry.outcomes)
             /\ retry.result = "exhausted" <=> Len(retry.outcomes) = MAX_RETRIES)
    /\ [][ (InPublish /\ retry.result = "exhausted") =>
             /\ retry' = retry \/ retry' = NoRetry
             /\ PublishReturned => ReturnsFalse ]_vars

\* a run has returned False after three generic failures of the upload
C11_Witness ==
    /\ pc = "proc_done" /\ result = "False"
    /\ InPublish /\ retry.outcomes = <<"generic", "generic", "generic">>
    /\ Len(retry.sleeps) = 3

\* C12: in upload_video a rate-limited attempt (status 403) is followed by a
\* wait of 3600 seconds whatever the attempt index, any other failed attempt by
\* a wait of 2^attempt seconds; either kind uses up one attempt, and a call
\* whose attempts are all rate-limited returns False.
C12_RateLimitWait ==
    /\ [][ PublishAttempted =>
             LET o == retry'.outcomes[Len(retry'.outcomes)]
             IN  /\ Len(retry'.outcomes) = Len(retry.outcomes) + 1
                 /\ o = "rate403" => retry'.sleeps = Append(retry.sleeps, 3600)
                 /\ o = "generic" => retry'.sleeps = Append(retry.sleeps, 2 ^ retry.attempt)
                 /\ o = "ok" => retry'.sleeps = retry.sleeps ]_vars
    /\ [][ (PublishReturned /\ Len(retry.outcomes) = MAX_RETRIES /\ AllOutcomes("rate403"))
             => ReturnsFalse ]_vars

\* a run has returned False after a rate-limited last attempt that waited 3600
\* seconds where the backoff would have been 4
C12_Witness ==
    /\ pc = "proc_done" /\ result = "False"
    /\ InPublish /\ retry.outcomes = <<"generic", "rate403", "rate403">>
    /\ retry.sleeps = <<1, 3600, 3600>>

\* upload_video was called in the run and the run has ended
UploadCalled == pc = "proc_done" /\ InStages("publish")

\* C13, as claimed: every call of upload_video returns a boolean to
\* process_daily_videos, never an exception, also when the lazy authentication
\* or the opening of the file fails; and it returns False only after
\* MAX_RETRIES attempts.
C13_AsClaimed ==
    UploadCalled =>
        /\ InStages("publish_ok") \/ InStages("publish_failed")
        /\ result \in {"True", "False"}
        /\ result = "False" => (InPublish /\ retry.attempt = MAX_RETRIES)

\* ------------------------------------------------------------ Listing
ListReturned == retry.loop = "list" /\ pc # "fetch_list"
Recognized(e) ==
    /\ Len(e.href) >= 3
    /\ e.href[1] = "media"
    /\ e.href[Len(e.href)] = "mp4"
Kept == SelectSeq(server, Recognized)

\* C14: fetch_video_list issues one request per pass of its loop; when every
\* pass fails it has made exactly MAX_RETRIES requests and returns the empty
\* list, without raising; after a pass that succeeds it makes no other request.
C14_ListingRetries ==
    /\ [] (retry.loop = "list" =>
             /\ retry.attempt <= MAX_RETRIES
             /\ retry.result = "exhausted" =>
                  (retry.attempt = MAX_RETRIES /\ pc # "sync_raised" /\ videos = <<>>))
    /\ [][ (pc = "fetch_list" /\ retry' # retry) =>
             (retry'.loop = "list" /\ retry'.attempt = retry.attempt + 1) ]_vars
    /\ [][ (retry.loop = "list" /\ retry.result \in {"ok", "exhausted"}) =>
             (retry'.loop = "list" => retry' = retry) ]_vars

\* the camera shows recordings, every request failed, and the empty list came
\* back after the third
C14_Witness ==
    /\ pc = "listed" /\ retry.loop = "list"
    /\ retry.result = "exhausted" /\ retry.attempt = 3
    /\ server # <<>> /\ videos = <<>>

\* C15: the list fetch_video_list returns holds, in listing order, exactly the
\* entries whose link is present, is under media/ and ends in .mp4, each with
\* its own thumbnail; an entry without such a link is dropped and is never what
\* makes the call raise.
C15_ListingFiltered ==
    /\ (ListReturned /\ retry.result = "ok" /\ pc = "listed") =>
          videos = [i \in 1..Len(Kept) |->
                      [video |-> Kept[i].href, thumbnail |-> Kept[i].thumbnail]]
    /\ pc = "sync_raised" =>
          \E i \in DOMAIN server : Recognized(server[i]) /\ server[i].thumbnail = NoValue

\* a page of an entry without link, a recording, and a .jpg entry gave a list
\* of the one recording
C15_Witness ==
    /\ pc = "listed" /\ retry.result = "ok"
    /\ Len(server) = 3 /\ Len(videos) = 1
    /\ server[1].href = <<>>
    /\ Recognized(server[2]) /\ videos[1].video = server[2].href
    /\ server[3].href = <<"media", "e", "jpg">>

\* ------------------------------------------------------------ Fetch-and-Purge
InRecord == pc \in {"download", "delete"}
RecordLeft == InRecord /\ (pc' \notin {"download", "delete"} \/ idx' # idx)

\* C16: fetch_and_clean attempts a download for every record of the listing,
\* in listing order: whatever the downloads and the delete requests of a record
\* come to, the record after it is taken up next, and the sync ends only after
\* the last record.
C16_EveryRecordAttempted ==
    /\ [][ (pc = "listed" /\ videos # <<>> /\ pc' # pc) =>
             (pc' = "download" /\ idx' = 1 /\ retry'.loop = "download") ]_vars
    /\ [][ (pc = "download" /\ (pc' # pc \/ idx' # idx)) =>
             (retry.loop = "download" /\ retry.attempt >= 1) ]_vars
    /\ [][ RecordLeft =>
             IF idx < Len(videos)
             THEN pc' = "download" /\ idx' = idx + 1
                  /\ retry'.loop = "download" /\ retry'.attempt = 0
             ELSE pc' = "sync_done" ]_vars
    /\ [] (InRecord => idx \in DOMAIN videos)

\* the sync has ended after two records: the download of the first failed on
\* every attempt, the second was downloaded and its delete request failed
C16_Witness ==
    /\ pc = "sync_done" /\ Len(videos) = 2 /\ idx = 2
    /\ dlOk = {2}
    /\ retry.loop = "delete" /\ retry.result = "exhausted"

\* ------------------------------------------------------------ Merge
InMerge == retry.loop = "merge"
MergeLeft == pc = "merge" /\ pc' # "merge"
InPlace(f) ==
    /\ \A n \in Originals(atStart) :
          f[date_str].exists /\ n \in DOMAIN f[date_str].files
          /\ f[date_str].files[n] = atStart.files[n]
    /\ Manifest \in DOMAIN f[date_str].files
    /\ f[date_str].files[Manifest].kind = "manifest"

\* C17: concatenate_videos runs ffmpeg at most MAX_RETRIES times; the first run
\* that exits with code zero ends the loop and the call returns True; a run
\* that fails, by its exit code or by the timeout, uses up one attempt and is
\* followed by the backoff 2^attempt; after MAX_RETRIES failed runs the call
\* returns False, every original file and the manifest being in place.
C17_MergeRetries ==
    /\ [] (InMerge => retry.attempt <= MAX_RETRIES)
    /\ [][ (pc = "merge" /\ retry' # retry /\ retry'.loop = "merge") =>
             /\ retry.result = "running"
             /\ retry'.attempt = retry.attempt + 1
             /\ retry'.sleeps = IF retry'.result = "ok" THEN retry.sleeps
                                ELSE Append(retry.sleeps, 2 ^ retry.attempt) ]_vars
    /\ [][ MergeLeft =>
             /\ retry.result = "ok" =>
                  (pc' = "upload" /\ stages' = Append(stages, "merge_ok"))
             /\ retry.result # "ok" =>
                  /\ retry.attempt = MAX_RETRIES /\ Len(retry.sleeps) = MAX_RETRIES
                  /\ pc' = "proc_done" /\ result' = "False"
                  /\ InPlace(fs') ]_vars

\* after three failed runs of ffmpeg, the last leaving a partly written output,
\* the run has returned False
C17_Witness ==
    /\ pc = "proc_done" /\ result = "False" /\ InStages("merge_failed")
    /\ InMerge /\ retry.sleeps = <<1, 2, 4>>
    /\ FileAt(date_str, OutputName(date_str)).kind = "artifact"
    /\ ~FileAt(date_str, OutputName(date_str)).complete
    /\ Originals(atStart) # {} /\ InPlace(fs)

\* ------------------------------------------------------------ Scheduler loop
SyncPcs == {"fetch_list", "listed", "download", "delete", "sync_done", "sync_raised"}
ProcPcs == {"proc_start", "merge", "upload", "publish", "cleanup", "proc_done"}
SyncIdle == videos = <<>> /\ idx = 0 /\ retry.loop \notin {"list", "download", "delete"}
ProcIdle ==
    /\ date_str = NoDate /\ stages = <<>> /\ result = "none"
    /\ retry.loop \notin {"merge", "publish"}

\* C18: in the scheduler loop Fetch-and-Purge and the Daily Pipeline never run
\* at the same time: while one is in progress the other is not; the daily check
\* is evaluated only after the scrape check, and the scrape it called, is over;
\* and a tick begins only when the tick before it has ended in its sleep.
C18_StagesSequential ==
    /\ [] (mode = "scheduler" =>
             /\ pc \in ProcPcs => SyncIdle
             /\ pc \in SyncPcs => ProcIdle
             /\ pc \in {"loop_head", "daily_check", "sleep", "stopped"} => (SyncIdle /\ ProcIdle))
    /\ [][ (mode = "scheduler" /\ pc' # pc) =>
             /\ pc' = "daily_check" => pc \in {"loop_head", "sync_done", "sync_raised"}
             /\ pc' = "proc_start" => pc = "daily_check"
             /\ pc' = "sleep" => pc \in {"daily_check", "proc_done"}
             /\ pc' = "loop_head" => pc = "sleep" ]_vars

\* the Daily Pipeline of a tick is merging what the scrape of the same tick
\* downloaded
C18_Witness ==
    /\ mode = "scheduler" /\ pc = "merge"
    /\ last_scrape = tick_now
    /\ files # <<>> /\ SyncIdle

\* ------------------------------------------------------------ start and stop
StartCalled == calls'.starts = calls.starts + 1
StopCalled == calls'.stops = calls.stops + 1
AllExited == \A t \in DOMAIN loops : loops[t].at = "exited"

\* C19: start() on a scheduler whose running flag is true starts no thread and
\* leaves running, last_daily_process and every running loop as they are.
C19_StartWhileRunning ==
    [][ (StartCalled /\ running) =>
          /\ loops' = loops
          /\ running' = running
          /\ last_daily_process' = last_daily_process ]_vars

\* start() was called twice and never stop(): there is one loop thread
C19_Witness ==
    /\ calls = [starts |-> 2, stops |-> 0]
    /\ running /\ Len(loops) = 1
    /\ loops[1].at = "daily"

\* C20: stop() interrupts nothing: every loop goes on with the tick it is in;
\* while the flag stays false a loop that comes to the top of its iteration
\* exits instead of beginning a tick, and a loop that has exited does nothing;
\* and unless start() is called again every loop eventually exits.
C20_StopEndsLoop ==
    /\ [][ StopCalled => (loops' = loops /\ ~running') ]_vars
    /\ [][ \A t \in DOMAIN loops :
             (~running /\ loops'[t] # loops[t]) =>
                CASE loops[t].at = "head" -> loops'[t].at = "exited"
                  [] loops[t].at = "scrape" -> loops'[t].at = "check"
                  [] loops[t].at = "check" -> loops'[t].at \in {"daily", "sleep"}
                  [] loops[t].at = "daily" -> loops'[t].at = "sleep"
                  [] loops[t].at = "sleep" -> loops'[t].at = "head"
                  [] OTHER -> FALSE ]_vars
    /\ (~running /\ loops # <<>>) ~> (running \/ AllExited)

\* the loop has exited after one start() and one stop(), having recorded a
\* successful daily run
C20_Witness ==
    /\ calls = [starts |-> 1, stops |-> 1]
    /\ ~running /\ Len(loops) = 1 /\ loops[1].at = "exited"
    /\ last_daily_process # NoDate

\* --------------------------------------------------------- signals, exit codes
\* C21: a shutdown signal never ends the process while a download, delete,
\* merge or upload call is running its attempts; the process stops only
\* between stages.
InFlight == pc \in {"download", "delete", "merge", "publish"} /\ retry.result = "running"
C21_AsClaimed == [][ InFlight => pc' # "exit" ]_vars

\* C22: in scheduler mode, while running is true, a stage that returns failure
\* or raises never ends the loop: the loop reaches its sleep, and from its
\* sleep it begins the next tick.
ScrapeFailed ==
    \/ pc = "sync_raised"
    \/ pc = "sync_done" /\ retry.loop = "list" /\ retry.result = "exhausted"
    \/ pc = "sync_done" /\ \E i \in DOMAIN videos : i \notin dlOk
DailyFailed == pc = "proc_done" /\ result \in {"False", "raised"}
StageFailed == mode = "scheduler" /\ running /\ (ScrapeFailed \/ DailyFailed)
TickBegun == pc \in {"fetch_list", "daily_check"}
C22_LoopSurvivesFailure ==
    /\ [](mode = "scheduler" /\ running => pc \notin {"stopped", "exit"})
    /\ (StageFailed ~> pc = "sleep")
    /\ ((mode = "scheduler" /\ pc = "sleep") ~> TickBegun)
\* the loop, still running, sleeps after a daily run that raised
C22_Witness ==
    /\ mode = "scheduler" /\ running /\ pc = "sleep"
    /\ triggered.end = "raised"

\* C23: a one-shot process ends with a non-zero exit code on a configuration
\* error, on an invalid date argument, when the daily run returned False, and
\* when the scrape failed (listing exhausted, or a download failed after all
\* its attempts); after a configuration or date error no stage runs.
Rejected == pc \in {"start", "exit"} /\ pc' = "exit" /\ runs' = runs + 1
C23_AsClaimed ==
    [][ /\ Rejected =>
             exitCode' # "0" /\ UNCHANGED <<envVars, retry, syncVars, procVars>>
        /\ (mode = "daily" /\ pc = "proc_done" /\ result = "False" /\ pc' = "exit") =>
             exitCode' # "0"
        /\ (mode = "scrape" /\ ScrapeFailed /\ pc' = "exit") =>
             exitCode' # "0" ]_vars

\* ------------------------------------------------------- the publish call
Published == pc \in {"cleanup", "proc_done"} /\ InStages("publish_ok")
CallOf(d, ext) ==
    [file_path |-> <<d, <<ToString(d) \o "_combined", ext>>>>, title |-> <<"prefix", d>>]

\* C24, as stated: a run for date d that merged and published called
\* upload_video exactly once, with title "<prefix> d" and the path
\* <dataDir>/d/d_combined.
C24_AsClaimed == Published => upload_calls = <<CallOf(date_str, "")>>

\* C24, amended: a run for date d that merged and published called
\* upload_video exactly once, with title "<prefix> d" and the path
\* <dataDir>/d/d_combined.mp4, whatever the day the run takes place on.
C24_PublishCall == Published => upload_calls = <<CallOf(date_str, "mp4")>>
\* a run for a day before today has published
C24_Witness == Published /\ date_str # DateOf(now) /\ Len(upload_calls) = 1

\* C25: across syncs and daily runs whose delete, download, merge and publish
\* attempts may fail, the content of a recording of the camera is part of at
\* most one published video: an upload that succeeds carries nothing that
\* stands on the channel already.
UploadSucceeds == pc = "publish" /\ retry.result = "running" /\ retry'.result = "ok"
Carried == fs[date_str].files[OutputName(date_str)].from
C25_AsClaimed == [][ UploadSucceeds => Carried \cap channel = {} ]_vars
\* the same, for the recordings that carry a delete handle
Handled == { e.href : e \in { c \in Catalog : c.thumbnail \notin {NoHandle, ""} } }
C25_Handled == [][ UploadSucceeds => Carried \cap channel \cap Handled = {} ]_vars

\* C26: the loop running without interruption, every date sees the daily
\* pipeline triggered at or after the configured time, whatever the stages
\* take: when a date ends while the loop is at work in a tick, the last
\* trigger was on that date.
DateEnds == DateOf(now') > DateOf(now)
InTick == pc \notin {"loop_head", "sleep"}
C26_AsClaimed == [][ (DateEnds /\ InTick) => triggered.date = DateOf(now) ]_vars

\* C27: the session of an uploader is built in upload_video, before its first
\* request, and kept: an uploader builds at most one session, a session once
\* set stays set and no call builds another, and no insert request is made
\* while the session is unset.
C27_SessionLazyAndReused ==
    /\ [](auths <= 1 /\ (youtube_service <=> auths = 1))
    /\ [](pc = "publish" => youtube_service)
    /\ [][ /\ auths' # auths => pc = "upload" /\ ~youtube_service
           /\ youtube_service => youtube_service' /\ auths' = auths ]_vars
\* a second call of upload_video is at its requests, an earlier call of the
\* same uploader having published
C27_Witness ==
    /\ mode = "scheduler" /\ pc = "publish" /\ retry.result = "running"
    /\ channel # {} /\ auths = 1

\* ------------------------------------------------- buckets, delete, manifest
\* C28: a bucket directory comes into being only with a download that
\* succeeds: a sync whose listing is empty, or whose downloads all fail,
\* creates none.
Created == \E d \in Dates : ~fs[d].exists /\ fs'[d].exists
C28_AsClaimed ==
    /\ [][ Created => pc = "download" /\ retry'.result = "ok" ]_vars
    /\ [](pc = "sync_done" /\ dlOk = {} /\ runs = 1 => \A d \in Dates : ~fs[d].exists)

\* C29: a delete request answered with a status in 200..299 is a success:
\* delete_video_from_server returns True and makes no further attempt.
Answered(codes) ==
    /\ pc = "delete" /\ retry.result = "running" /\ retry'.attempt = retry.attempt + 1
    /\ retry'.outcomes[1] \in codes
C29_AsClaimed == [][ Answered({"200", "204"}) => retry'.result = "ok" ]_vars

\* C30: the manifest a run writes names every .mp4 file the bucket held when
\* the run listed it, each once, by the absolute path of the file in that
\* bucket, in ascending order of file name, and names nothing else.
ManifestWritten == pc = "proc_start" /\ pc' = "merge"
Mp4At(b) == { n \in DOMAIN b.files : n[2] = "mp4" }
C30_ManifestListsMedia ==
    [][ ManifestWritten =>
          LET d == date_str'
              lines == fs'[d].files[Manifest].lines
          IN  /\ Len(lines) = Cardinality(Mp4At(fs[d]))
              /\ { lines[i] : i \in DOMAIN lines } = { <<d, n>> : n \in Mp4At(fs[d]) }
              /\ \A i, j \in DOMAIN lines :
                    i < j => NameRank(lines[i][2]) < NameRank(lines[j][2]) ]_vars
\* a manifest of three lines: two recordings and the merged file of an
\* earlier run, beside a manifest that run left
C30_Witness ==
    /\ pc = "merge" /\ retry.attempt = 0
    /\ Len(fs[date_str].files[Manifest].lines) = 3
    /\ runs = 2

\* ------------------------------------------------------ backoff, the ticks
\* C31: in every retry loop the wait after failed attempt i (0-indexed) is
\* 2^i seconds, for every i below MAX_RETRIES, and these waits grow strictly;
\* in upload_video this holds for the waits of its ordinary failures, a
\* rate-limit failure waiting otherwise.
StandardWait(i) == retry.loop = "publish" => retry.outcomes[i] = "generic"
C31_BackoffDoubles ==
    /\ Len(retry.sleeps) <= MAX_RETRIES
    /\ \A i \in DOMAIN retry.sleeps : StandardWait(i) => retry.sleeps[i] = 2 ^ (i - 1)
    /\ \A i, j \in DOMAIN retry.sleeps :
          (i < j /\ StandardWait(i) /\ StandardWait(j)) => retry.sleeps[i] < retry.sleeps[j]
\* upload_video has failed MAX_RETRIES times in the ordinary way
C31_Witness ==
    /\ retry.loop = "publish" /\ retry.result = "exhausted"
    /\ \A i \in 1..MAX_RETRIES : retry.outcomes[i] = "generic"
    /\ retry.sleeps = <<1, 2, 4>>

\* C32: a tick runs the scrape iff no scrape was recorded yet or at least the
\* scrape interval lies between the recorded time and the tick's start; when
\* the scrape has returned, the recorded time is the start of that tick, and
\* nothing else changes it. So the first tick scrapes, and two scrapes never
\* start closer than the interval.
TickStarts == pc = "loop_head" /\ pc' # "loop_head" /\ running
ScrapeReturns == pc \in {"sync_done", "sync_raised"} /\ pc' = "daily_check"
C32_ScrapeWhenDue ==
    [][ /\ TickStarts =>
             /\ pc' = "fetch_list" <=>
                   (last_scrape = NoTime \/ now - last_scrape >= SCRAPE_INTERVAL)
             /\ tick_now' = now
        /\ ScrapeReturns => last_scrape' = tick_now
        /\ last_scrape' # last_scrape => ScrapeReturns ]_vars
\* a scrape begins exactly one interval after the start of the tick of the
\* scrape before it
C32_Witness ==
    /\ mode = "scheduler" /\ pc = "fetch_list" /\ retry.attempt = 0
    /\ last_scrape # NoTime /\ tick_now - last_scrape = SCRAPE_INTERVAL

\* --------------------------------------------------- reruns, dates, threads
\* C33: the files a run hands to ffmpeg are downloaded recordings only: the
\* merged file of the bucket is never among the files listed, and never a
\* line of the manifest, also when an earlier run left it behind.
C33_AsClaimed ==
    /\ \A i \in DOMAIN files :
          files[i] # OutputName(date_str) /\ atStart.files[files[i]].kind = "media"
    /\ pc \in {"merge", "upload", "publish", "cleanup"} =>
          \A q \in Range(FileAt(date_str, Manifest).lines) : q[2] # OutputName(date_str)

\* C34: when run_daily_process records a success, last_daily_process is the
\* date whose bucket the run processed, also when midnight passed during the
\* run.
SuccessRecorded == mode = "scheduler" /\ pc = "proc_done" /\ result = "True" /\ pc' = "sleep"
C34_AsClaimed == [][ SuccessRecorded => last_daily_process' = date_str ]_vars

\* C35: whatever start() and stop() calls were made, at most one loop is
\* executing ticks: no two loops are inside run_scraping, or inside
\* run_daily_process, at the same time.
C35_AsClaimed ==
    \A t, u \in DOMAIN loops :
        (t # u /\ loops[t].at \in {"scrape", "daily"}) => loops[u].at # loops[t].at

\* ------------------------------------------------------ the downloaded files
\* C36: when download_video has failed on all its attempts, the bucket holds
\* no partial file for the record: no file of its name, or a complete one.
DownloadFailed == pc = "download" /\ retry.result = "exhausted"
C36_AsClaimed ==
    DownloadFailed =>
        LET f == FileAt(sync_day, FileName(videos[idx].video))
        IN  f.kind = "none" \/ f.complete

\* C37: two records of a listing with distinct asset paths, both downloaded
\* successfully in one sync, are both in the bucket when the sync is over.
HoldsCopy(h) ==
    \E n \in DOMAIN fs[sync_day].files :
        fs[sync_day].files[n].from = {h} /\ fs[sync_day].files[n].complete
C37_AsClaimed ==
    pc = "sync_done" =>
        \A i, j \in dlOk :
            videos[i].video # videos[j].video =>
                HoldsCopy(videos[i].video) /\ HoldsCopy(videos[j].video)

\* C38: the scheduler running without interruption and its collaborators
\* succeeding in the end, every recording a sync wrote into a bucket is
\* eventually published and removed by a daily run: a bucket that holds a
\* recording eventually holds none.
HasMedia(d) == fs[d].exists /\ \E n \in DOMAIN fs[d].files : fs[d].files[n].kind = "media"
C38_AsClaimed == \A d \in Dates : HasMedia(d) ~> ~HasMedia(d)

====
